---- MODULE Spec2Model ----
(***************************************************************************)
(* Model of two parts of the UI layer:                                     *)
(*   - HudRenderer (frontend/hud.cpp): update(visible), openInventory,     *)
(*     closeInventory, as a state machine whose program counter walks      *)
(*     through the statements of update in source order;                   *)
(*   - UiDocument (UiDocument.cpp): the constructor and collect, which     *)
(*     build the id -> node map from a node tree.                          *)
(* Spec is the HUD machine, DocSpec the UiDocument construction.           *)
(***************************************************************************)
EXTENDS Integers, Sequences, FiniteSets

VARIABLES
    hud,                  \* HudRenderer fields: pause, inventoryOpen, inventoryView, inventoryDocument
    pc,                   \* position inside HudRenderer::update ("idle" between calls)
    visible,              \* the argument of the update call in progress (or of the last one)
    input,                \* the events read by the step just taken
    menuVisible,          \* gui->getMenu() visibility
    menuPage,             \* gui->getMenu()->current(): NoPage when its panel is nullptr
    debugPanelVisible,
    darkOverlayVisible,
    contentAccessVisible,
    hotbarVisible,
    guiViews,             \* how many times inventoryView is in the GUI's node list
    cursor_locked,        \* Events::_cursor_locked
    cursorToggles,        \* Events::toggleCursor calls made by the update call in progress
    chosenSlot,           \* player->getChosenSlot()
    fault,                \* "none", or why the process stopped
    tree,                 \* the node tree handed to the UiDocument constructor
    map,                  \* UiDocument::map
    docPc                 \* "none" | "input" | "built"

vars == <<hud, pc, visible, input, menuVisible, menuPage, debugPanelVisible,
          darkOverlayVisible, contentAccessVisible, hotbarVisible, guiViews,
          cursor_locked, cursorToggles, chosenSlot, fault, tree, map, docPc>>

hudVars == <<hud, pc, visible, input, menuVisible, menuPage, debugPanelVisible,
             darkOverlayVisible, contentAccessVisible, hotbarVisible, guiViews,
             cursor_locked, cursorToggles, chosenSlot, fault>>

docVars == <<tree, map, docPc>>

----------------------------------------------------------------------------
(* Bounds of the model *)

\* how many number keys can be "just pressed" in one frame
MaxKeys == 2
\* ordinary scroll values range over -MaxScroll..MaxScroll
MaxScroll == 11
\* number of nodes of the largest tree handed to the UiDocument constructor
MaxNodes == 4

(* Program constants *)

\* the hotbar has 10 slots: "% 10", "+= 10"
HotbarSlots == 10
\* the largest value of the C++ int "slot"
INT_MAX == 2147483647
INT_MIN == -INT_MAX - 1

NULL == "nullptr"
NoPage == "nullptr"
NoInput == [kind |-> "none"]

----------------------------------------------------------------------------
(* HudRenderer *)

\* The state the constructor leaves.  pause and inventoryOpen start false and
\* inventoryView and inventoryDocument null; the menu has been reset; the panels
\* the constructor creates are visible.  What other code owns (the menu's
\* visibility, the cursor lock, the player's chosen slot) is arbitrary.
HudInit ==
    /\ hud = [pause |-> FALSE, inventoryOpen |-> FALSE,
              inventoryView |-> NULL, inventoryDocument |-> NULL]
    /\ pc = "idle"
    /\ visible = FALSE
    /\ input = NoInput
    /\ menuVisible \in BOOLEAN
    /\ menuPage = NoPage
    /\ debugPanelVisible = TRUE
    /\ darkOverlayVisible = TRUE
    /\ contentAccessVisible = TRUE
    /\ hotbarVisible = TRUE
    /\ guiViews = 0
    /\ cursor_locked \in BOOLEAN
    /\ cursorToggles = 0
    /\ chosenSlot \in 0..(HotbarSlots - 1)
    /\ fault = "none"

\* where update goes next: a faulted process does not continue
Goto(next) == IF fault' = "none" THEN next ELSE "aborted"

\* Events::toggleCursor
toggleCursor ==
    /\ cursor_locked' = ~cursor_locked
    /\ cursorToggles' = cursorToggles + 1

\* HudRenderer::openInventory
openInventory ==
    /\ hud' = [hud EXCEPT !.inventoryOpen = TRUE,
                          !.inventoryDocument = "core:inventory",
                          !.inventoryView = "view"]
    /\ guiViews' = guiViews + 1
    /\ fault' = fault

\* HudRenderer::closeInventory (inventoryView->getInventory() on a null view
\* stops the process)
closeInventory ==
    IF hud.inventoryView = NULL
    THEN /\ fault' = "null_deref"
         /\ UNCHANGED <<hud, guiViews>>
    ELSE /\ hud' = [hud EXCEPT !.inventoryOpen = FALSE,
                               !.inventoryView = NULL,
                               !.inventoryDocument = NULL]
         /\ guiViews' = IF guiViews > 0 THEN guiViews - 1 ELSE 0
         /\ fault' = fault

\* update, lines 279-284
Begin(v, debug) ==
    /\ pc = "idle"
    /\ UNCHANGED docVars
    /\ visible' = v
    /\ debugPanelVisible' = (debug /\ v)
    /\ menuVisible' = hud.pause
    /\ cursorToggles' = 0
    /\ input' = [kind |-> "begin", debug |-> debug]
    /\ pc' = "hidden"
    /\ UNCHANGED <<hud, menuPage, darkOverlayVisible, contentAccessVisible,
                   hotbarVisible, guiViews, cursor_locked, chosenSlot, fault>>

\* HiddenClose with the inventoryOpen guard of line 286 dropped
HiddenCloseUnguarded ==
    /\ pc = "hidden"
    /\ UNCHANGED docVars
    /\ IF ~visible
       THEN closeInventory
       ELSE UNCHANGED <<hud, guiViews, fault>>
    /\ input' = NoInput
    /\ pc' = Goto("nopage")
    /\ UNCHANGED <<visible, menuVisible, menuPage, debugPanelVisible,
                   darkOverlayVisible, contentAccessVisible, hotbarVisible,
                   cursor_locked, cursorToggles, chosenSlot>>

\* update, lines 286-288
HiddenClose ==
    /\ pc = "hidden"
    /\ UNCHANGED docVars
    /\ IF ~visible /\ hud.inventoryOpen
       THEN closeInventory
       ELSE UNCHANGED <<hud, guiViews, fault>>
    /\ input' = NoInput
    /\ pc' = Goto("nopage")
    /\ UNCHANGED <<visible, menuVisible, menuPage, debugPanelVisible,
                   darkOverlayVisible, contentAccessVisible, hotbarVisible,
                   cursor_locked, cursorToggles, chosenSlot>>

\* update, lines 289-291
NoPageUnpause ==
    /\ pc = "nopage"
    /\ UNCHANGED docVars
    /\ hud' = IF hud.pause /\ menuPage = NoPage
              THEN [hud EXCEPT !.pause = FALSE]
              ELSE hud
    /\ input' = NoInput
    /\ pc' = "escape"
    /\ UNCHANGED <<visible, menuVisible, menuPage, debugPanelVisible,
                   darkOverlayVisible, contentAccessVisible, hotbarVisible,
                   guiViews, cursor_locked, cursorToggles, chosenSlot, fault>>

\* Escape with the isFocusCaught test of line 292 dropped
EscapeIgnoresFocus(jpressed, focusCaught) ==
    /\ pc = "escape"
    /\ UNCHANGED docVars
    /\ input' = [kind |-> "escape", jpressed |-> jpressed, focusCaught |-> focusCaught]
    /\ IF jpressed
       THEN IF hud.pause
            THEN /\ hud' = [hud EXCEPT !.pause = FALSE]
                 /\ menuPage' = NoPage
                 /\ UNCHANGED <<guiViews, fault>>
            ELSE IF hud.inventoryOpen
            THEN /\ closeInventory
                 /\ UNCHANGED menuPage
            ELSE /\ hud' = [hud EXCEPT !.pause = TRUE]
                 /\ menuPage' = "pause"
                 /\ UNCHANGED <<guiViews, fault>>
       ELSE UNCHANGED <<hud, menuPage, guiViews, fault>>
    /\ pc' = Goto("bind")
    /\ UNCHANGED <<visible, menuVisible, debugPanelVisible, darkOverlayVisible,
                   contentAccessVisible, hotbarVisible, cursor_locked,
                   cursorToggles, chosenSlot>>

\* update, lines 292-302: the ESCAPE key
Escape(jpressed, focusCaught) ==
    /\ pc = "escape"
    /\ UNCHANGED docVars
    /\ input' = [kind |-> "escape", jpressed |-> jpressed, focusCaught |-> focusCaught]
    /\ IF jpressed /\ ~focusCaught
       THEN IF hud.pause
            THEN /\ hud' = [hud EXCEPT !.pause = FALSE]
                 /\ menuPage' = NoPage
                 /\ UNCHANGED <<guiViews, fault>>
            ELSE IF hud.inventoryOpen
            THEN /\ closeInventory
                 /\ UNCHANGED menuPage
            ELSE /\ hud' = [hud EXCEPT !.pause = TRUE]
                 /\ menuPage' = "pause"
                 /\ UNCHANGED <<guiViews, fault>>
       ELSE UNCHANGED <<hud, menuPage, guiViews, fault>>
    /\ pc' = Goto("bind")
    /\ UNCHANGED <<visible, menuVisible, debugPanelVisible, darkOverlayVisible,
                   contentAccessVisible, hotbarVisible, cursor_locked,
                   cursorToggles, chosenSlot>>

\* InventoryBind with the visible test of line 303 dropped
InventoryBindIgnoresVisible(jactive) ==
    /\ pc = "bind"
    /\ UNCHANGED docVars
    /\ input' = [kind |-> "bind", jactive |-> jactive]
    /\ IF jactive /\ ~hud.pause
       THEN IF hud.inventoryOpen THEN closeInventory ELSE openInventory
       ELSE UNCHANGED <<hud, guiViews, fault>>
    /\ pc' = Goto("cursor")
    /\ UNCHANGED <<visible, menuVisible, menuPage, debugPanelVisible,
                   darkOverlayVisible, contentAccessVisible, hotbarVisible,
                   cursor_locked, cursorToggles, chosenSlot>>

\* InventoryBind with the pause test of line 304 dropped
InventoryBindIgnoresPause(jactive) ==
    /\ pc = "bind"
    /\ UNCHANGED docVars
    /\ input' = [kind |-> "bind", jactive |-> jactive]
    /\ IF visible /\ jactive
       THEN IF hud.inventoryOpen THEN closeInventory ELSE openInventory
       ELSE UNCHANGED <<hud, guiViews, fault>>
    /\ pc' = Goto("cursor")
    /\ UNCHANGED <<visible, menuVisible, menuPage, debugPanelVisible,
                   darkOverlayVisible, contentAccessVisible, hotbarVisible,
                   cursor_locked, cursorToggles, chosenSlot>>

\* update, lines 303-311: the inventory key binding
InventoryBind(jactive) ==
    /\ pc = "bind"
    /\ UNCHANGED docVars
    /\ input' = [kind |-> "bind", jactive |-> jactive]
    /\ IF visible /\ jactive /\ ~hud.pause
       THEN IF hud.inventoryOpen THEN closeInventory ELSE openInventory
       ELSE UNCHANGED <<hud, guiViews, fault>>
    /\ pc' = Goto("cursor")
    /\ UNCHANGED <<visible, menuVisible, menuPage, debugPanelVisible,
                   darkOverlayVisible, contentAccessVisible, hotbarVisible,
                   cursor_locked, cursorToggles, chosenSlot>>

\* CursorSync with inventoryOpen left out of the test of line 312
CursorSyncIgnoresInventory ==
    /\ pc = "cursor"
    /\ UNCHANGED docVars
    /\ IF hud.pause = cursor_locked
       THEN toggleCursor
       ELSE UNCHANGED <<cursor_locked, cursorToggles>>
    /\ input' = NoInput
    /\ pc' = "panels"
    /\ UNCHANGED <<hud, visible, menuVisible, menuPage, debugPanelVisible,
                   darkOverlayVisible, contentAccessVisible, hotbarVisible,
                   guiViews, chosenSlot, fault>>

\* update, lines 312-314: the cursor lock follows pause and inventoryOpen
CursorSync ==
    /\ pc = "cursor"
    /\ UNCHANGED docVars
    /\ IF (hud.pause \/ hud.inventoryOpen) = cursor_locked
       THEN toggleCursor
       ELSE UNCHANGED <<cursor_locked, cursorToggles>>
    /\ input' = NoInput
    /\ pc' = "panels"
    /\ UNCHANGED <<hud, visible, menuVisible, menuPage, debugPanelVisible,
                   darkOverlayVisible, contentAccessVisible, hotbarVisible,
                   guiViews, chosenSlot, fault>>

\* update, lines 316-319
Panels ==
    /\ pc = "panels"
    /\ UNCHANGED docVars
    /\ contentAccessVisible' = hud.inventoryOpen
    /\ hotbarVisible' = visible
    /\ input' = NoInput
    /\ pc' = "keys"
    /\ UNCHANGED <<hud, visible, menuVisible, menuPage, debugPanelVisible,
                   darkOverlayVisible, guiViews, cursor_locked, cursorToggles,
                   chosenSlot, fault>>

\* the loop of lines 321-325 from key NUM_i on: keys is the set of digits d
\* whose key NUM_d was just pressed
RECURSIVE numKeysLoop(_, _, _)
numKeysLoop(i, keys, slot) ==
    IF i > 9 THEN slot
    ELSE numKeysLoop(i + 1, keys, IF i \in keys THEN i - 1 ELSE slot)

\* update, lines 321-328: the number keys
NumKeys(keys) ==
    /\ pc = "keys"
    /\ UNCHANGED docVars
    /\ input' = [kind |-> "keys", keys |-> keys]
    /\ chosenSlot' = IF 0 \in keys THEN 9 ELSE numKeysLoop(1, keys, chosenSlot)
    /\ pc' = "scroll"
    /\ UNCHANGED <<hud, visible, menuVisible, menuPage, debugPanelVisible,
                   darkOverlayVisible, contentAccessVisible, hotbarVisible,
                   guiViews, cursor_locked, cursorToggles, fault>>

\* the C++ remainder a % HotbarSlots: truncates toward zero, so it has the sign of a
cRem(a) ==
    IF a >= 0 THEN a % HotbarSlots
    ELSE IF a % HotbarSlots = 0 THEN 0 ELSE (a % HotbarSlots) - HotbarSlots

\* lines 331-334 once the int difference d = slot - Events::scroll is known
wrapSlot(d) == IF cRem(d) < 0 THEN cRem(d) + HotbarSlots ELSE cRem(d)

\* slot - scroll does not fit an int (slot >= 0, so only the upper end can be passed)
subOverflows(slot, scroll) == scroll < slot - INT_MAX

\* slot - scroll reduced modulo 2^32 into the int range, when it overflowed
subWrapped(slot, scroll) == (slot - (scroll + INT_MAX) - 2) - INT_MAX

\* update, lines 329-336: the scroll wheel.  A signed overflow of slot - scroll
\* is undefined: the build either wraps the difference or traps.
Scroll(scroll) ==
    /\ pc = "scroll"
    /\ UNCHANGED docVars
    /\ input' = [kind |-> "scroll", scroll |-> scroll]
    /\ IF ~hud.pause /\ ~hud.inventoryOpen /\ scroll # 0
       THEN IF subOverflows(chosenSlot, scroll)
            THEN \/ /\ chosenSlot' = wrapSlot(subWrapped(chosenSlot, scroll))
                    /\ fault' = fault
                 \/ /\ fault' = "signed_overflow"
                    /\ chosenSlot' = chosenSlot
            ELSE /\ chosenSlot' = wrapSlot(chosenSlot - scroll)
                 /\ fault' = fault
       ELSE UNCHANGED <<chosenSlot, fault>>
    /\ pc' = Goto("overlay")
    /\ UNCHANGED <<hud, visible, menuVisible, menuPage, debugPanelVisible,
                   darkOverlayVisible, contentAccessVisible, hotbarVisible,
                   guiViews, cursor_locked, cursorToggles>>

\* update, line 338, and the return
Overlay ==
    /\ pc = "overlay"
    /\ UNCHANGED docVars
    /\ darkOverlayVisible' = hud.pause
    /\ input' = NoInput
    /\ pc' = "idle"
    /\ UNCHANGED <<hud, visible, menuVisible, menuPage, debugPanelVisible,
                   contentAccessVisible, hotbarVisible, guiViews, cursor_locked,
                   cursorToggles, chosenSlot, fault>>

(* The environment between two update calls *)

MenuPages == {NoPage, "pause", "settings"}

\* the user navigates the menu (a button of the pause page resets the menu or
\* opens another page)
MenuNavigate(page) ==
    /\ pc = "idle"
    /\ UNCHANGED docVars
    /\ page # menuPage
    /\ menuPage' = page
    /\ UNCHANGED <<hud, pc, visible, input, menuVisible, debugPanelVisible,
                   darkOverlayVisible, contentAccessVisible, hotbarVisible,
                   guiViews, cursor_locked, cursorToggles, chosenSlot, fault>>

\* other code toggles the cursor lock
CursorToggledElsewhere ==
    /\ pc = "idle"
    /\ UNCHANGED docVars
    /\ cursor_locked' = ~cursor_locked
    /\ UNCHANGED <<hud, pc, visible, input, menuVisible, menuPage,
                   debugPanelVisible, darkOverlayVisible, contentAccessVisible,
                   hotbarVisible, guiViews, cursorToggles, chosenSlot, fault>>

\* Each event is read once per update call, by the step that uses it, so the
\* step draws its value; input records what the step read.

\* digit d stands for key NUM_d
Digits == 0..9
KeySets == {k \in SUBSET Digits : Cardinality(k) <= MaxKeys}
\* Events::scroll: the ordinary range and the ends of the int range
ScrollValues == (-MaxScroll..MaxScroll) \cup {INT_MIN, INT_MIN + 1, INT_MAX}

Next ==
    \/ \E v \in BOOLEAN, d \in BOOLEAN : Begin(v, d)
    \/ HiddenClose
    \/ NoPageUnpause
    \/ \E jp \in BOOLEAN, fc \in BOOLEAN : Escape(jp, fc)
    \/ \E ja \in BOOLEAN : InventoryBind(ja)
    \/ CursorSync
    \/ Panels
    \/ \E keys \in KeySets : NumKeys(keys)
    \/ \E s \in ScrollValues : Scroll(s)
    \/ Overlay
    \/ \E page \in MenuPages : MenuNavigate(page)
    \/ CursorToggledElsewhere

----------------------------------------------------------------------------
(* UiDocument *)

\* ids of the nodes; "" is the empty id
NodeIds == {"", "a", "b"}

\* the parent of node i and its ancestors, i included (0 is "no parent")
RECURSIVE ancestorsOrSelf(_, _)
ancestorsOrSelf(parent, i) ==
    IF i = 0 THEN {} ELSE {i} \cup ancestorsOrSelf(parent, parent[i])

\* p is the parent vector of an ordered tree of n nodes: node 1 is the root,
\* and the nodes are numbered so that every list of sub-nodes is in increasing
\* order (each node hangs below its predecessor or one of its ancestors)
IsTree(n, p) ==
    /\ \A i \in 1..n : p[i] < i
    /\ \A i \in 2..n : p[i] \in ancestorsOrSelf(p, i - 1)

\* a node tree of n nodes: id[i] is node i's id, container[i] whether node i is
\* a gui::Container, parent[i] the node that holds node i in its list of sub-nodes
Tree(n, ids, parents, containers) ==
    [n |-> n, id |-> ids, parent |-> parents, container |-> containers]

\* the sub-nodes of a node, in list order
getNodes(t, node) ==
    SelectSeq([i \in 1..t.n |-> i], LAMBDA i : t.parent[i] = node)

\* UiDocument::collect; collectNodes is its loop over container->getNodes()
RECURSIVE collect(_, _, _), collectNodes(_, _, _)
collectNodes(t, m, nodes) ==
    IF nodes = <<>> THEN m
    ELSE collectNodes(t, collect(t, m, Head(nodes)), Tail(nodes))

\* collect with the id.empty() test of line 42 dropped
collectStoresEmptyId(t, m, node) ==
    LET id == t.id[node]
        m1 == [k \in DOMAIN m \cup {id} |-> IF k = id THEN node ELSE m[k]]
    IN  IF t.container[node]
        THEN collectNodes(t, m1, getNodes(t, node))
        ELSE m1

\* collect with map.insert semantics (an id already in the map is kept)
\* in place of the assignment of line 43
collectKeepsFirst(t, m, node) ==
    LET id == t.id[node]
        m1 == IF id # "" /\ id \notin DOMAIN m
              THEN [k \in DOMAIN m \cup {id} |-> IF k = id THEN node ELSE m[k]]
              ELSE m
    IN  IF t.container[node]
        THEN collectNodes(t, m1, getNodes(t, node))
        ELSE m1

collect(t, m, node) ==
    LET id == t.id[node]
        m1 == IF id # ""
              THEN [k \in DOMAIN m \cup {id} |-> IF k = id THEN node ELSE m[k]]
              ELSE m
    IN  IF t.container[node]
        THEN collectNodes(t, m1, getNodes(t, node))
        ELSE m1

\* UiDocument::UiDocument
Construct ==
    /\ docPc = "input"
    /\ map' = collect(tree, <<>>, 1)
    /\ docPc' = "built"
    /\ UNCHANGED tree
    /\ UNCHANGED hudVars

DocInit ==
    /\ HudInit
    /\ ~menuVisible /\ ~cursor_locked /\ chosenSlot = 0
    /\ \E n \in 1..MaxNodes :
          \E p \in [1..n -> 0..(n - 1)] :
             /\ IsTree(n, p)
             /\ \E i \in [1..n -> NodeIds], c \in [1..n -> BOOLEAN] :
                   tree = Tree(n, i, p, c)
    /\ map = <<>>
    /\ docPc = "input"

DocNext == Construct

DocSpec == DocInit /\ [][DocNext]_vars

----------------------------------------------------------------------------
(* Properties of UiDocument, checked under DocSpec *)

\* the nodes reached from the root by descending through the child lists of
\* Container nodes: every proper ancestor is a Container
Reachable(t) ==
    {n \in 1..t.n : \A a \in ancestorsOrSelf(t.parent, n) \ {n} : t.container[a]}

\* the nodes in the order of a depth-first pre-order walk from node
RECURSIVE preOrder(_, _), preOrderAll(_, _)
preOrderAll(t, nodes) ==
    IF nodes = <<>> THEN <<>>
    ELSE preOrder(t, Head(nodes)) \o preOrderAll(t, Tail(nodes))

preOrder(t, node) ==
    <<node>> \o (IF t.container[node] THEN preOrderAll(t, getNodes(t, node)) ELSE <<>>)

\* C1: the map built by the constructor is sound and complete: its keys are
\* exactly the non-empty ids of the nodes reachable from the root, each key is
\* mapped to a reachable node with that id, and the empty id is never a key.
C1_MapSoundComplete ==
    docPc = "built" =>
        /\ DOMAIN map = {tree.id[n] : n \in Reachable(tree)} \ {""}
        /\ \A k \in DOMAIN map :
              /\ map[k] \in Reachable(tree)
              /\ tree.id[map[k]] = k
        /\ "" \notin DOMAIN map

\* a built document with two keys, a reachable node with an empty id, and a
\* node with an id that is out of reach (below a node that is no Container)
C1_Witness ==
    /\ docPc = "built"
    /\ Cardinality(DOMAIN map) = 2
    /\ \E n \in Reachable(tree) : tree.id[n] = ""
    /\ \E n \in (1..tree.n) \ Reachable(tree) : tree.id[n] # ""

\* C4: when several nodes share a non-empty id, the one entry of the map for
\* that id is the node visited last in the depth-first pre-order walk.
C4_LastVisitedWins ==
    docPc = "built" =>
        \A k \in DOMAIN map :
            LET visits == SelectSeq(preOrder(tree, 1), LAMBDA n : tree.id[n] = k)
            IN  /\ visits # <<>>
                /\ map[k] = visits[Len(visits)]

\* a built document where a descendant has overridden its ancestor, and a
\* later sibling has overridden a node of an earlier sibling's subtree
C4_Witness ==
    /\ docPc = "built"
    /\ \E a, d \in Reachable(tree) :
          /\ a # d
          /\ a \in ancestorsOrSelf(tree.parent, d)
          /\ tree.id[a] = tree.id[d]
          /\ tree.id[d] \in DOMAIN map
          /\ map[tree.id[d]] = d
    /\ \E x, y \in Reachable(tree) :
          /\ x < y
          /\ x \notin ancestorsOrSelf(tree.parent, y)
          /\ tree.id[x] = tree.id[y]
          /\ tree.id[y] \in DOMAIN map
          /\ map[tree.id[y]] = y

----------------------------------------------------------------------------
(* Properties of HudRenderer, checked under Spec *)

\* the step that ends an update call
Returns == pc = "overlay" /\ pc' = "idle"

\* ESCAPE was just pressed and the GUI focus is not caught, as read by the step
EscapeTaken == input'.jpressed /\ ~input'.focusCaught

\* C2: the ESCAPE step takes exactly one of three transitions, chosen by the
\* flags as they stand when it runs: paused -> unpause and reset the menu;
\* else inventory open -> closeInventory, pause stays false; else -> pause and
\* show the "pause" page.  Without ESCAPE, or with the focus caught, neither
\* pause nor inventoryOpen changes.
C2_EscapeStep ==
    [][pc = "escape" =>
        /\ (EscapeTaken /\ hud.pause) =>
              /\ ~hud'.pause
              /\ menuPage' = NoPage
              /\ hud'.inventoryOpen = hud.inventoryOpen
              /\ guiViews' = guiViews
        /\ (EscapeTaken /\ ~hud.pause /\ hud.inventoryOpen) =>
              /\ ~hud'.inventoryOpen
              /\ hud'.inventoryView = NULL
              /\ guiViews' = guiViews - 1
              /\ ~hud'.pause
              /\ menuPage' = menuPage
        /\ (EscapeTaken /\ ~hud.pause /\ ~hud.inventoryOpen) =>
              /\ hud'.pause
              /\ menuPage' = "pause"
              /\ ~hud'.inventoryOpen
              /\ guiViews' = guiViews
        /\ ~EscapeTaken =>
              /\ hud'.pause = hud.pause
              /\ hud'.inventoryOpen = hud.inventoryOpen
    ]_vars

\* the ESCAPE step has just closed the inventory (the second transition): the
\* content panel still shows what the previous call left, an open inventory
C2_Witness ==
    /\ pc = "bind"
    /\ input.kind = "escape"
    /\ input.jpressed /\ ~input.focusCaught
    /\ ~hud.pause /\ ~hud.inventoryOpen
    /\ contentAccessVisible /\ ~darkOverlayVisible

\* C3: the inventory binding flips inventoryOpen exactly when the HUD is
\* visible and not paused, and has no effect otherwise; openInventory runs only
\* in a call with visible = true; an update call with visible = false returns
\* with inventoryOpen false.
C3_InventoryBinding ==
    [][/\ pc = "bind" =>
            IF visible /\ input'.jactive /\ ~hud.pause
            THEN hud'.inventoryOpen = ~hud.inventoryOpen
            ELSE hud'.inventoryOpen = hud.inventoryOpen
       /\ (guiViews' > guiViews \/ (~hud.inventoryOpen /\ hud'.inventoryOpen)) =>
            (visible /\ pc = "bind")
       /\ (Returns /\ ~visible) => ~hud'.inventoryOpen
    ]_vars

\* the binding has just opened the inventory
C3_Witness ==
    /\ pc = "cursor"
    /\ input.kind = "bind" /\ input.jactive
    /\ visible
    /\ hud.inventoryOpen
    /\ ~contentAccessVisible

\* C5: when update returns, the cursor is locked exactly when the HUD is
\* neither paused nor showing the inventory; the cursor is toggled at most once
\* per call, only by the step of line 312, and not when the lock already has
\* that value.
C5_CursorLock ==
    [][/\ Returns =>
            /\ cursor_locked' = ~(hud'.pause \/ hud'.inventoryOpen)
            /\ cursorToggles' <= 1
       /\ (pc = "cursor" /\ cursor_locked = ~(hud.pause \/ hud.inventoryOpen)) =>
            /\ cursor_locked' = cursor_locked
            /\ cursorToggles' = 0
       /\ (pc \notin {"idle", "cursor"}) =>
            /\ cursor_locked' = cursor_locked
            /\ cursorToggles' = cursorToggles
    ]_vars

\* the cursor step has just unlocked the cursor for an open inventory
C5_Witness ==
    /\ pc = "panels"
    /\ cursorToggles = 1
    /\ hud.inventoryOpen
    /\ ~cursor_locked

\* C6: when update returns, the dark overlay and the pause menu are both
\* visible exactly when pause, as it stands at the end of the call, is true.
C6_PauseWidgets ==
    [][Returns =>
        /\ darkOverlayVisible' = hud'.pause
        /\ menuVisible' = hud'.pause
    ]_vars

\* the residue of slot - scroll modulo the number of slots, in 0..9
Residue(slot, scroll) ==
    ((slot % HotbarSlots) - (scroll % HotbarSlots)) % HotbarSlots

\* C7: slot selection always yields a slot in 0..9: key NUM_d alone selects
\* slot d - 1 (NUM_0: slot 9); a non-zero scroll s, applied only when neither
\* paused nor inventory open, sets the slot to the residue (slot - s) mod 10
\* for every int s; otherwise scrolling leaves the slot unchanged.
C7_SlotSelection ==
    [][/\ chosenSlot' \in 0..(HotbarSlots - 1)
       /\ pc = "keys" =>
            /\ \A d \in Digits : input'.keys = {d} =>
                  chosenSlot' = IF d = 0 THEN 9 ELSE d - 1
            /\ input'.keys = {} => chosenSlot' = chosenSlot
       /\ (pc = "scroll" /\ pc' = "overlay") =>
            IF ~hud.pause /\ ~hud.inventoryOpen /\ input'.scroll # 0
            THEN chosenSlot' = Residue(chosenSlot, input'.scroll)
            ELSE chosenSlot' = chosenSlot
    ]_vars

\* C8: pause and the inventory overlay are never both on, at any point of
\* update or between calls.
C8_PauseExcludesInventory == ~(hud.pause /\ hud.inventoryOpen)

\* the binding was activated in a visible, paused HUD
C8_Witness ==
    /\ pc = "cursor"
    /\ input.kind = "bind" /\ input.jactive
    /\ visible
    /\ hud.pause

\* C9: inventoryOpen holds exactly when inventoryView is set, and exactly when
\* inventoryDocument is set; closeInventory never runs on a null view, and the
\* view is in the GUI at most once (once exactly when the inventory is open).
C9_InventoryViewConsistent ==
    /\ hud.inventoryOpen <=> hud.inventoryView # NULL
    /\ hud.inventoryOpen <=> hud.inventoryDocument # NULL
    /\ fault # "null_deref"
    /\ guiViews <= 1
    /\ guiViews = IF hud.inventoryOpen THEN 1 ELSE 0

\* the hidden-HUD step has just closed an inventory that an earlier call opened
C9_Witness ==
    /\ pc = "nopage"
    /\ ~visible
    /\ contentAccessVisible /\ ~darkOverlayVisible
    /\ ~hud.inventoryOpen
    /\ hud.inventoryView = NULL
    /\ guiViews = 0

----------------------------------------------------------------------------
DocIdle ==
    /\ tree = <<>>
    /\ map = <<>>
    /\ docPc = "none"

Init == HudInit /\ DocIdle

Spec == Init /\ [][Next]_vars

====
